---- MODULE Spec2Model ----
(***************************************************************************)
(* Model of the Concord / Juan Optical camera configuration tools:         *)
(*   camera_config.py        ConcordCamera wrapper and its CLI             *)
(*   tools/juan_camera_tool.py   JuanCamera wrapper and its CLI            *)
(* One behaviour is one invocation: a call of a wrapper method by a        *)
(* library user, or one run of a CLI main.  The camera's answer to each    *)
(* HTTP request is an input chosen by the environment.                     *)
(***************************************************************************)
EXTENDS Integers, Sequences, FiniteSets, TLC

(***************************************************************************)
(* Bounds                                                                  *)
(***************************************************************************)
\* largest number of keyword arguments / option flags given in one call
MaxKw == 2

(***************************************************************************)
(* Python values.  Every value is a record of the same shape so that any   *)
(* two values can be compared: t is the type, and i, s, b, m carry the     *)
(* payload of an int, a str, a bytes / decoded text, and a dict.           *)
(***************************************************************************)
EmptyMap == [k \in {} |-> 0]

PyNone == [t |-> "NoneType", i |-> 0, s |-> "", b |-> <<>>, m |-> EmptyMap]

PyInt(n) == [t |-> "int", i |-> n, s |-> "", b |-> <<>>, m |-> EmptyMap]

PyStr(x) == [t |-> "str", i |-> 0, s |-> x, b |-> <<>>, m |-> EmptyMap]

\* bytes, as the sequence of byte values
PyBytes(x) == [t |-> "bytes", i |-> 0, s |-> "", b |-> x, m |-> EmptyMap]

\* a str obtained by decoding a body, as the sequence of code points
PyText(x) == [t |-> "text", i |-> 0, s |-> "", b |-> x, m |-> EmptyMap]

PyDict(f) == [t |-> "dict", i |-> 0, s |-> "", b |-> <<>>, m |-> f]

PyBool(x) ==
    [t |-> "bool", i |-> IF x THEN 1 ELSE 0, s |-> "", b |-> <<>>, m |-> EmptyMap]

\* a list of n elements
PyList(n) == [t |-> "list", i |-> n, s |-> "", b |-> <<>>, m |-> EmptyMap]

\* Python truth value of v, as tested by "if v:"
Truthy(v) ==
    CASE v.t = "NoneType" -> FALSE
      [] v.t = "int"      -> v.i # 0
      [] v.t = "bool"     -> v.i # 0
      [] v.t = "str"      -> v.s # ""
      [] v.t = "bytes"    -> v.b # <<>>
      [] v.t = "text"     -> v.b # <<>>
      [] v.t = "dict"     -> DOMAIN v.m # {}
      [] v.t = "list"     -> v.i > 0

\* data[key] = value
SetItem(data, key, value) ==
    [x \in DOMAIN data \cup {key} |-> IF x = key THEN value ELSE data[x]]

\* result.get(key): the value, or None when the key is missing
DictGet(d, key) == IF key \in DOMAIN d.m THEN d.m[key] ELSE PyNone

(***************************************************************************)
(* Character strings that the code inspects character by character         *)
(* (the confirmation answers and the Content-Type header) are sequences    *)
(* of one-character strings.                                               *)
(***************************************************************************)
UpperChars == <<"A","B","C","D","E","F","G","H","I","J","K","L","M",
                "N","O","P","Q","R","S","T","U","V","W","X","Y","Z">>

LowerChars == <<"a","b","c","d","e","f","g","h","i","j","k","l","m",
                "n","o","p","q","r","s","t","u","v","w","x","y","z">>

\* str.lower() of one character
LowerChar(c) ==
    IF \E n \in 1..26 : UpperChars[n] = c
    THEN LowerChars[CHOOSE n \in 1..26 : UpperChars[n] = c]
    ELSE c

\* str.lower()
StrLower(str) == [n \in 1..Len(str) |-> LowerChar(str[n])]

\* str.startswith(prefix)
StartsWith(str, prefix) ==
    /\ Len(prefix) <= Len(str)
    /\ SubSeq(str, 1, Len(prefix)) = prefix

\* "sub in str"
Contains(str, sub) ==
    \E n \in 0..(Len(str) - Len(sub)) : SubSeq(str, n + 1, n + Len(sub)) = sub

s_image == <<"i","m","a","g","e">>

s_image_slash == <<"i","m","a","g","e","/">>

s_yes == <<"y","e","s">>

s_FACTORY_RESET == <<"F","A","C","T","O","R","Y"," ","R","E","S","E","T">>

(***************************************************************************)
(* Exceptions, named by class, with the classes each is an instance of.    *)
(* requests.exceptions.JSONDecodeError derives from both                   *)
(* requests.exceptions.RequestException and json.JSONDecodeError.          *)
(***************************************************************************)
Bases(e) ==
    CASE e = "ConnectionError" ->
            {"ConnectionError", "RequestException", "OSError", "Exception"}
      [] e = "HTTPError" ->
            {"HTTPError", "RequestException", "OSError", "Exception"}
      [] e = "JSONDecodeError" ->
            {"JSONDecodeError", "requests.JSONDecodeError",
             "json.JSONDecodeError", "RequestException", "OSError",
             "ValueError", "Exception"}
      [] OTHER -> {e, "Exception"}

IsInstance(e, cls) == cls \in Bases(e)

Return(v) == [k |-> "return", v |-> v, exc |-> ""]

Raise(e) == [k |-> "raise", v |-> PyNone, exc |-> e]

\* no wrapper method was called
NoCall == [k |-> "none", v |-> PyNone, exc |-> ""]

(***************************************************************************)
(* The camera's answers.                                                   *)
(***************************************************************************)
TransportError ==
    [kind |-> "transport", status |-> 0, ctype |-> <<>>, body |-> <<>>]

HttpResponse(status, ctype, body) ==
    [kind |-> "http", status |-> status, ctype |-> ctype, body |-> body]

ct_json == <<"a","p","p","l","i","c","a","t","i","o","n","/","j","s","o","n">>

ct_jpeg == <<"i","m","a","g","e","/","j","p","e","g">>

ct_html == <<"t","e","x","t","/","h","t","m","l">>

\* no Content-Type header: headers.get('Content-Type', '') gives ''
ct_none == <<>>

\* a type that mentions "image" without being an image/... type
ct_ximage == <<"t","e","x","t","/","x","-","i","m","a","g","e">>

ContentTypes == {ct_json, ct_jpeg, ct_html, ct_ximage, ct_none}

Statuses == {200, 204, 304, 401, 500}

\* bodies, as byte sequences
body_empty == <<>>

\* OK
body_OK == <<79, 75>>

\* {}
body_obj == <<123, 125>>

\* {"statusCode":0}
body_status0 ==
    <<123,34,115,116,97,116,117,115,67,111,100,101,34,58,48,125>>

\* {"statusCode":1}
body_status1 ==
    <<123,34,115,116,97,116,117,115,67,111,100,101,34,58,49,125>>

\* [1]
body_list == <<91, 49, 93>>

\* {"type":"binary","data":"x"}
body_binary ==
    <<123,34,116,121,112,101,34,58,34,98,105,110,97,114,121,34,44,
      34,100,97,116,97,34,58,34,120,34,125>>

\* ret="success"
body_success == <<114,101,116,61,34,115,117,99,99,101,115,115,34>>

\* a JPEG: SOI marker, one data byte, EOI marker
body_jpeg == <<255, 216, 7, 255, 217>>

Bodies == {body_empty, body_OK, body_obj, body_status0, body_status1,
           body_list, body_binary, body_success, body_jpeg}

Responses ==
    {TransportError} \cup
    {HttpResponse(st, ct, bd) : st \in Statuses, ct \in ContentTypes, bd \in Bodies}

\* the answers tried on the settings writes of ConcordCamera
SetterResponses ==
    {TransportError,
     HttpResponse(200, ct_json, body_obj),
     HttpResponse(200, ct_html, body_OK),
     HttpResponse(304, ct_json, body_obj),
     HttpResponse(401, ct_html, body_OK),
     HttpResponse(500, ct_json, body_status1)}

\* response.raise_for_status(): HTTPError for 4xx and 5xx
raise_for_status(status) == status >= 400 /\ status < 600

\* response.text: the body decoded, an undecodable byte replaced by U+FFFD
response_text(body) ==
    [n \in 1..Len(body) |-> IF body[n] < 128 THEN body[n] ELSE 65533]

\* response.json(): the decoded value, or JSONDecodeError
response_json(body) ==
    CASE body = body_obj     -> Return(PyDict(EmptyMap))
      [] body = body_status0 -> Return(PyDict("statusCode" :> PyInt(0)))
      [] body = body_status1 -> Return(PyDict("statusCode" :> PyInt(1)))
      [] body = body_list    -> Return(PyList(1))
      [] body = body_binary  -> Return(PyDict(("type" :> PyStr("binary")) @@
                                              ("data" :> PyStr("x"))))
      [] OTHER               -> Raise("JSONDecodeError")

\* json.dumps(v) succeeds: bytes are not JSON serializable
Dumpable(v) ==
    /\ v.t # "bytes"
    /\ \A key \in DOMAIN v.m : v.m[key].t # "bytes"

(***************************************************************************)
(* ConcordCamera (camera_config.py)                                        *)
(***************************************************************************)
\* ConcordCamera(host, username, password, port, timeout)
ConcordCamera(host, username, password) ==
    [host |-> host, username |-> username, password |-> password,
     port |-> 80, auth |-> "digest"]

\* one HTTP request as it leaves the process
Request(method, host, auth, path, query, json) ==
    [method |-> method, host |-> host, auth |-> auth, path |-> path,
     query |-> query, json |-> json]

\* mutant of request_try: the status is never checked
request_try_unchecked(resp) ==
    IF resp.kind = "transport" THEN Raise("ConnectionError")
    ELSE IF Contains(resp.ctype, s_image)
         THEN Return(PyDict(("data" :> PyBytes(resp.body)) @@
                            ("type" :> PyStr("binary"))))
    ELSE response_json(resp.body)

\* the try block of _request: send, raise_for_status, decode
request_try(resp) ==
    IF resp.kind = "transport" THEN Raise("ConnectionError")
    ELSE IF raise_for_status(resp.status) THEN Raise("HTTPError")
    ELSE IF Contains(resp.ctype, s_image)
         THEN Return(PyDict(("data" :> PyBytes(resp.body)) @@
                            ("type" :> PyStr("binary"))))
    ELSE response_json(resp.body)

\* mutant of request_except: the two except clauses in the other order
request_except_swapped(tried, resp) ==
    IF tried.k = "raise" /\ IsInstance(tried.exc, "RequestException")
    THEN Raise("ValueError")
    ELSE IF tried.k = "raise" /\ IsInstance(tried.exc, "requests.JSONDecodeError")
    THEN Return(PyDict(("result" :> PyInt(0)) @@
                       ("raw" :> PyText(response_text(resp.body)))))
    ELSE tried

\* the except clauses of _request, in their order
request_except(tried, resp) ==
    IF tried.k = "raise" /\ IsInstance(tried.exc, "requests.JSONDecodeError")
    THEN Return(PyDict(("result" :> PyInt(0)) @@
                       ("raw" :> PyText(response_text(resp.body)))))
    ELSE IF tried.k = "raise" /\ IsInstance(tried.exc, "RequestException")
    THEN Raise("ValueError")
    ELSE tried

\* ConcordCamera._request(method, endpoint, json=...)
Concord_request(camera, method, path, query, json, resp) ==
    [sent |-> <<Request(method, camera.host, camera.auth, path, query, json)>>,
     out  |-> request_except(request_try(resp), resp)]

\* the value bound to a parameter: the keyword argument, or the default
Arg(kw, name, default) == IF name \in DOMAIN kw THEN kw[name] ELSE default

\* mutant of IfNotNone: the key is set without the test
IfNotNone_unguarded(data, key, value) == SetItem(data, key, value)

\* "if value is not None: data[key] = value"
IfNotNone(data, key, value) ==
    IF value # PyNone THEN SetItem(data, key, value) ELSE data

\* "if value: data[key] = value"
IfTruthy(data, key, value) ==
    IF Truthy(value) THEN SetItem(data, key, value) ELSE data

network_params == {"dhcp", "ip", "netmask", "gateway", "dns1", "dns2"}

network_data(kw) ==
    LET d1 == IfNotNone(EmptyMap, "dhcp", Arg(kw, "dhcp", PyNone))
        d2 == IfTruthy(d1, "ip",      Arg(kw, "ip", PyNone))
        d3 == IfTruthy(d2, "netmask", Arg(kw, "netmask", PyNone))
        d4 == IfTruthy(d3, "gateway", Arg(kw, "gateway", PyNone))
        d5 == IfTruthy(d4, "dns1",    Arg(kw, "dns1", PyNone))
    IN  IfTruthy(d5, "dns2", Arg(kw, "dns2", PyNone))

set_network_settings(camera, kw, resp) ==
    Concord_request(camera, "POST", "/api/v1/system/network", PyNone,
                    PyDict(network_data(kw)), resp)

video_params == {"channel", "codec", "resolution", "fps", "bitrate",
                 "bitrate_control", "quality", "gop"}

video_data(kw) ==
    LET d0 == SetItem(EmptyMap, "channel", Arg(kw, "channel", PyInt(0)))
        d1 == IfTruthy(d0, "codec",       Arg(kw, "codec", PyNone))
        d2 == IfTruthy(d1, "resolution",  Arg(kw, "resolution", PyNone))
        d3 == IfNotNone(d2, "fps",        Arg(kw, "fps", PyNone))
        d4 == IfNotNone(d3, "bitrate",    Arg(kw, "bitrate", PyNone))
        d5 == IfTruthy(d4, "bitrate_control", Arg(kw, "bitrate_control", PyNone))
        d6 == IfTruthy(d5, "quality",     Arg(kw, "quality", PyNone))
    IN  IfNotNone(d6, "gop", Arg(kw, "gop", PyNone))

set_video_stream_settings(camera, kw, resp) ==
    Concord_request(camera, "POST", "/api/v1/video/stream", PyNone,
                    PyDict(video_data(kw)), resp)

image_params == {"brightness", "contrast", "saturation", "hue", "sharpness",
                 "flip", "mirror", "wdr", "exposure_mode"}

image_data(kw) ==
    LET d1 == IfNotNone(EmptyMap, "brightness", Arg(kw, "brightness", PyNone))
        d2 == IfNotNone(d1, "contrast",   Arg(kw, "contrast", PyNone))
        d3 == IfNotNone(d2, "saturation", Arg(kw, "saturation", PyNone))
        d4 == IfNotNone(d3, "hue",        Arg(kw, "hue", PyNone))
        d5 == IfNotNone(d4, "sharpness",  Arg(kw, "sharpness", PyNone))
        d6 == IfNotNone(d5, "flip",       Arg(kw, "flip", PyNone))
        d7 == IfNotNone(d6, "mirror",     Arg(kw, "mirror", PyNone))
        d8 == IfNotNone(d7, "wdr",        Arg(kw, "wdr", PyNone))
    IN  IfTruthy(d8, "exposure_mode", Arg(kw, "exposure_mode", PyNone))

set_image_settings(camera, kw, resp) ==
    Concord_request(camera, "POST", "/api/v1/image/settings", PyNone,
                    PyDict(image_data(kw)), resp)

motion_params == {"enabled", "sensitivity", "regions"}

motion_data(kw) ==
    LET d1 == IfNotNone(EmptyMap, "enabled", Arg(kw, "enabled", PyNone))
        d2 == IfNotNone(d1, "sensitivity", Arg(kw, "sensitivity", PyNone))
    IN  IfNotNone(d2, "regions", Arg(kw, "regions", PyNone))

set_motion_detection(camera, kw, resp) ==
    Concord_request(camera, "POST", "/api/v1/motion/detection", PyNone,
                    PyDict(motion_data(kw)), resp)

osd_params == {"time_enabled", "time_position", "time_format", "camera_name",
               "camera_name_enabled", "camera_name_position"}

osd_data(kw) ==
    LET d1 == IfNotNone(EmptyMap, "time_enabled", Arg(kw, "time_enabled", PyNone))
        d2 == IfTruthy(d1, "time_position", Arg(kw, "time_position", PyNone))
        d3 == IfTruthy(d2, "time_format",   Arg(kw, "time_format", PyNone))
        d4 == IfTruthy(d3, "camera_name",   Arg(kw, "camera_name", PyNone))
        d5 == IfNotNone(d4, "camera_name_enabled",
                        Arg(kw, "camera_name_enabled", PyNone))
    IN  IfTruthy(d5, "camera_name_position",
                 Arg(kw, "camera_name_position", PyNone))

set_osd_settings(camera, kw, resp) ==
    Concord_request(camera, "POST", "/api/v1/osd/settings", PyNone,
                    PyDict(osd_data(kw)), resp)

\* the getters, each one GET of a fixed endpoint
get_system_info(camera, resp) ==
    Concord_request(camera, "GET", "/api/v1/system/info", PyNone, PyNone, resp)

get_network_settings(camera, resp) ==
    Concord_request(camera, "GET", "/api/v1/system/network", PyNone, PyNone, resp)

get_video_stream_settings(camera, channel, resp) ==
    Concord_request(camera, "GET", "/api/v1/video/stream", channel, PyNone, resp)

get_image_settings(camera, resp) ==
    Concord_request(camera, "GET", "/api/v1/image/settings", PyNone, PyNone, resp)

get_motion_detection(camera, resp) ==
    Concord_request(camera, "GET", "/api/v1/motion/detection", PyNone, PyNone, resp)

get_osd_settings(camera, resp) ==
    Concord_request(camera, "GET", "/api/v1/osd/settings", PyNone, PyNone, resp)

reboot(camera, resp) ==
    Concord_request(camera, "POST", "/api/v1/system/reboot", PyNone, PyNone, resp)

factory_reset(camera, resp) ==
    Concord_request(camera, "POST", "/api/v1/system/reset", PyNone, PyNone, resp)

\* mutant of WriteFile: the decoded text is written instead of the bytes
WriteFile_text(fs, filename, data) ==
    [p \in DOMAIN fs \cup {filename} |->
        IF p = filename THEN response_text(data) ELSE fs[p]]

\* open(filename, 'wb').write(data): the file holds exactly data afterwards
WriteFile(fs, filename, data) ==
    [p \in DOMAIN fs \cup {filename} |-> IF p = filename THEN data ELSE fs[p]]

\* ConcordCamera.get_snapshot(channel, filename), on the filesystem fs
Concord_get_snapshot(camera, channel, filename, resp, fs) ==
    LET r == Concord_request(camera, "GET", "/api/v1/snapshot", channel,
                             PyNone, resp)
        result == r.out.v
    IN  IF r.out.k = "raise" THEN [sent |-> r.sent, out |-> r.out, files |-> fs]
        ELSE IF result.t \notin {"dict"}
        \* result.get on a list: AttributeError
        THEN [sent |-> r.sent, out |-> Raise("AttributeError"), files |-> fs]
        ELSE IF DictGet(result, "type") = PyStr("binary")
        THEN IF Truthy(filename) /\ result.m["data"].t # "bytes"
             \* open(filename, 'wb') empties the file, f.write(str): TypeError
             THEN [sent  |-> r.sent,
                   out   |-> Raise("TypeError"),
                   files |-> WriteFile(fs, filename.s, <<>>)]
             ELSE [sent  |-> r.sent,
                   out   |-> Return(result.m["data"]),
                   files |-> IF Truthy(filename)
                             THEN WriteFile(fs, filename.s, result.m["data"].b)
                             ELSE fs]
        ELSE [sent |-> r.sent, out |-> Raise("ValueError"), files |-> fs]

\* ConcordCamera.get_rtsp_url: no request is made
get_rtsp_url(camera, channel, with_auth) ==
    [auth |-> IF with_auth
              THEN (IF camera.password # "" THEN "user:password@" ELSE "user@")
              ELSE "",
     host |-> camera.host, channel |-> channel]

(***************************************************************************)
(* JuanCamera (tools/juan_camera_tool.py)                                  *)
(***************************************************************************)
\* mutant of JuanCamera: no credentials are configured
JuanCamera_no_auth(ip, username, password) ==
    [host |-> ip, username |-> username, password |-> password,
     auth |-> "none"]

\* JuanCamera(ip, username, password)
JuanCamera(ip, username, password) ==
    [host |-> ip, username |-> username, password |-> password,
     auth |-> "basic"]

\* what a call of a JuanCamera method does: the requests it sent, its
\* outcome, what it printed on standard error, and the files afterwards
JuanEffect(sent, out, stderr, fs) ==
    [sent |-> sent, out |-> out, stderr |-> stderr, files |-> fs]

\* the inner try of _get: response.json(), "except json.JSONDecodeError"
get_decode(resp) ==
    LET parsed == response_json(resp.body)
    IN  IF parsed.k = "raise" /\ IsInstance(parsed.exc, "json.JSONDecodeError")
        THEN Return(PyText(response_text(resp.body)))
        ELSE parsed

\* the body of the try of _put: response.json(), with no handler of its own
put_decode(resp) == response_json(resp.body)

\* mutant of juan_except: the failure is swallowed without a message
juan_except_silent(tried, failed) ==
    IF tried.k = "raise" /\ IsInstance(tried.exc, "RequestException")
    THEN [out |-> Return(failed), stderr |-> <<>>]
    ELSE [out |-> tried, stderr |-> <<>>]

\* "except requests.exceptions.RequestException: print(Error); return None"
juan_except(tried, failed) ==
    IF tried.k = "raise" /\ IsInstance(tried.exc, "RequestException")
    THEN [out |-> Return(failed), stderr |-> <<"Error">>]
    ELSE [out |-> tried, stderr |-> <<>>]

\* JuanCamera._get(endpoint)
Juan_get(camera, path, resp, fs) ==
    LET tried == IF resp.kind = "transport" THEN Raise("ConnectionError")
                 ELSE IF raise_for_status(resp.status) THEN Raise("HTTPError")
                 ELSE get_decode(resp)
        h == juan_except(tried, PyNone)
    IN  JuanEffect(<<Request("GET", camera.host, camera.auth, path, PyNone, PyNone)>>,
                   h.out, h.stderr, fs)

\* JuanCamera._put(endpoint, data)
Juan_put(camera, path, data, resp, fs) ==
    LET tried == IF resp.kind = "transport" THEN Raise("ConnectionError")
                 ELSE IF raise_for_status(resp.status) THEN Raise("HTTPError")
                 ELSE put_decode(resp)
        h == juan_except(tried, PyNone)
    IN  JuanEffect(<<Request("PUT", camera.host, camera.auth, path, PyNone, data)>>,
                   h.out, h.stderr, fs)

\* JuanCamera.test_connection(): credentials in the URL, no auth argument,
\* no raise_for_status
test_connection(camera, resp, fs) ==
    JuanEffect(<<Request("GET", camera.host, "none", "/user/user_list.xml",
                         PyDict(("username" :> PyStr(camera.username)) @@
                                ("password" :> PyStr(camera.password))),
                         PyNone)>>,
               IF resp.kind = "transport" THEN Return(PyBool(FALSE))
               ELSE Return(PyBool(Contains(response_text(resp.body),
                                           body_success))),
               <<>>, fs)

get_oem_info(camera, resp, fs) ==
    Juan_get(camera, "/netsdk/oem/deviceinfo", resp, fs)

get_device_info(camera, resp, fs) ==
    Juan_get(camera, "/netsdk/system/deviceinfo", resp, fs)

get_video_encode(camera, channel, resp, fs) ==
    Juan_get(camera, "/netsdk/video/encode/channel/" \o ToString(channel),
             resp, fs)

get_video_encode_properties(camera, channel, resp, fs) ==
    Juan_get(camera, "/netsdk/video/encode/channel/" \o ToString(channel)
                     \o "/properties", resp, fs)

get_audio_encode(camera, channel, resp, fs) ==
    Juan_get(camera, "/netsdk/audio/encode/channel/" \o ToString(channel),
             resp, fs)

\* JuanCamera.set_video_encode(channel, **kwargs): the body is kwargs
set_video_encode(camera, channel, kwargs, resp, fs) ==
    Juan_put(camera, "/netsdk/video/encode/channel/" \o ToString(channel),
             PyDict(kwargs), resp, fs)

\* JuanCamera.set_audio_enabled(channel, enabled)
set_audio_enabled(camera, channel, enabled, resp, fs) ==
    Juan_put(camera, "/netsdk/audio/encode/channel/" \o ToString(channel),
             PyDict("enabled" :> PyBool(enabled)), resp, fs)

\* JuanCamera.get_snapshot(output_path, channel=1)
Juan_get_snapshot(camera, output_path, resp, fs) ==
    LET req == <<Request("GET", camera.host, camera.auth, "/snapshot",
                         PyInt(1), PyNone)>>
    IN  IF resp.kind = "transport" \/ raise_for_status(resp.status)
        THEN JuanEffect(req, Return(PyBool(FALSE)), <<"Error">>, fs)
        ELSE IF StartsWith(resp.ctype, s_image_slash)
        THEN (IF output_path = ""
              \* open('', 'wb'): FileNotFoundError, which is not caught
              THEN JuanEffect(req, Raise("FileNotFoundError"), <<>>, fs)
              ELSE JuanEffect(req, Return(PyBool(TRUE)), <<>>,
                              WriteFile(fs, output_path, resp.body)))
        ELSE JuanEffect(req, Return(PyBool(FALSE)),
                        <<"Error: Response is not an image">>, fs)

(***************************************************************************)
(* The Concord CLI: main of camera_config.py                               *)
(***************************************************************************)
\* the options each subcommand's parser defines (dest names)
SubOptions(command) ==
    CASE command = "set-network" ->
            {"dhcp", "ip", "netmask", "gateway", "dns1", "dns2"}
      [] command = "video"      -> {"channel"}
      [] command = "set-video"  ->
            {"channel", "codec", "resolution", "fps", "bitrate", "quality"}
      [] command = "set-image"  ->
            {"brightness", "contrast", "saturation", "sharpness", "wdr"}
      [] command = "set-motion" -> {"enabled", "sensitivity"}
      [] command = "set-osd"    -> {"camera_name", "show_time", "show_name"}
      [] command = "snapshot"   -> {"channel", "output"}
      [] command = "rtsp-url"   -> {"channel", "no_auth"}
      [] OTHER -> {}

\* the default of a subcommand option
SubDefault(command, dest) ==
    CASE dest = "channel" -> IF command = "rtsp-url" THEN PyInt(1) ELSE PyInt(0)
      [] dest = "output"  -> PyStr("snapshot.jpg")
      [] dest = "no_auth" -> PyBool(FALSE)
      [] OTHER -> PyNone

Commands == {"info", "network", "set-network", "video", "set-video", "image",
             "set-image", "motion", "set-motion", "osd", "set-osd",
             "snapshot", "rtsp-url", "reboot", "reset"}

\* parser.parse_args(): the namespace.  The subcommand's parser fills a
\* namespace of its own with every one of its dests (given value or
\* default) and argparse copies it over the top-level one, so a dest of
\* the subcommand replaces a top-level dest of the same name.
parse_args(top_ip, command, opts) ==
    [dest \in {"ip", "username", "password", "command"} \cup SubOptions(command) |->
        IF dest \in SubOptions(command)
        THEN Arg(opts, dest, SubDefault(command, dest))
        ELSE CASE dest = "ip"       -> PyStr(top_ip)
               [] dest = "username" -> PyStr("admin")
               [] dest = "password" -> PyStr("")
               [] dest = "command"  -> PyStr(command)]

\* the keyword arguments main passes, read from the namespace
PassArgs(args, pairs) == [name \in DOMAIN pairs |-> args[pairs[name]]]

\* what the try block of main does: requests sent, outcome of the wrapper
\* call, outcome of the block, standard output, files
MainEffect(sent, call, out, stdout, fs) ==
    [sent |-> sent, call |-> call, out |-> out, stdout |-> stdout,
     files |-> fs]

\* "result = camera.<call>; print(json.dumps(result, indent=2))"
PrintResult(r, fs) ==
    IF r.out.k = "raise" THEN MainEffect(r.sent, r.out, r.out, <<>>, fs)
    ELSE IF ~Dumpable(r.out.v)
    THEN MainEffect(r.sent, r.out, Raise("TypeError"), <<>>, fs)
    ELSE MainEffect(r.sent, r.out, Return(PyNone), <<"json">>, fs)

\* mutant of reboot_confirmed: 'yes' anywhere in the answer
reboot_confirmed_substring(confirm) == Contains(StrLower(confirm), s_yes)

\* the reboot prompt accepts the answer
reboot_confirmed(confirm) == StrLower(confirm) = s_yes

\* the factory reset prompt accepts the answer
reset_confirmed(confirm) == confirm = s_FACTORY_RESET

\* the try block of main: the dispatch on args.command
main_try(args, camera, answer, resp, fs) ==
    LET command == args["command"].s
    IN
    CASE command = "info"    -> PrintResult(get_system_info(camera, resp), fs)
      [] command = "network" -> PrintResult(get_network_settings(camera, resp), fs)
      [] command = "set-network" ->
            PrintResult(set_network_settings(camera,
                PassArgs(args, [dhcp |-> "dhcp", ip |-> "ip",
                                netmask |-> "netmask", gateway |-> "gateway",
                                dns1 |-> "dns1", dns2 |-> "dns2"]), resp), fs)
      [] command = "video" ->
            PrintResult(get_video_stream_settings(camera, args["channel"], resp), fs)
      [] command = "set-video" ->
            PrintResult(set_video_stream_settings(camera,
                PassArgs(args, [channel |-> "channel", codec |-> "codec",
                                resolution |-> "resolution", fps |-> "fps",
                                bitrate |-> "bitrate", quality |-> "quality"]),
                resp), fs)
      [] command = "image" -> PrintResult(get_image_settings(camera, resp), fs)
      [] command = "set-image" ->
            PrintResult(set_image_settings(camera,
                PassArgs(args, [brightness |-> "brightness",
                                contrast |-> "contrast",
                                saturation |-> "saturation",
                                sharpness |-> "sharpness", wdr |-> "wdr"]),
                resp), fs)
      [] command = "motion" -> PrintResult(get_motion_detection(camera, resp), fs)
      [] command = "set-motion" ->
            PrintResult(set_motion_detection(camera,
                PassArgs(args, [enabled |-> "enabled",
                                sensitivity |-> "sensitivity"]), resp), fs)
      [] command = "osd" -> PrintResult(get_osd_settings(camera, resp), fs)
      [] command = "set-osd" ->
            PrintResult(set_osd_settings(camera,
                PassArgs(args, [camera_name |-> "camera_name",
                                time_enabled |-> "show_time",
                                camera_name_enabled |-> "show_name"]), resp), fs)
      [] command = "snapshot" ->
            LET r == Concord_get_snapshot(camera, args["channel"],
                                          args["output"], resp, fs)
            IN  IF r.out.k = "raise"
                THEN MainEffect(r.sent, r.out, r.out, <<"Capturing snapshot">>,
                                r.files)
                ELSE MainEffect(r.sent, r.out, Return(PyNone),
                                <<"Capturing snapshot", "Snapshot saved">>,
                                r.files)
      [] command = "rtsp-url" ->
            MainEffect(<<>>, NoCall, Return(PyNone), <<"url", "WARNING">>, fs)
      [] command = "reboot" ->
            IF answer.eof
            THEN MainEffect(<<>>, NoCall, Raise("EOFError"), <<>>, fs)
            ELSE IF reboot_confirmed(answer.text)
            THEN PrintResult(reboot(camera, resp), fs)
            ELSE MainEffect(<<>>, NoCall, Return(PyNone),
                            <<"Reboot cancelled">>, fs)
      [] command = "reset" ->
            IF answer.eof
            THEN MainEffect(<<>>, NoCall, Raise("EOFError"), <<"WARNING">>, fs)
            ELSE IF reset_confirmed(answer.text)
            THEN (LET r == PrintResult(factory_reset(camera, resp), fs)
                  IN  [r EXCEPT !.stdout = <<"WARNING">> \o @])
            ELSE MainEffect(<<>>, NoCall, Return(PyNone),
                            <<"WARNING", "Factory reset cancelled">>, fs)

\* mutant of main_except: the handler returns 0
main_except_zero(tried) ==
    IF tried.out.k = "raise"
    THEN [code |-> 0, stderr |-> <<"Error">>, escaped |-> ""]
    ELSE [code |-> 0, stderr |-> <<>>, escaped |-> ""]

\* "return 0" after the dispatch, "except Exception: print(Error); return 1"
main_except(tried) ==
    IF tried.out.k = "raise" /\ IsInstance(tried.out.exc, "Exception")
    THEN [code |-> 1, stderr |-> <<"Error">>, escaped |-> ""]
    ELSE IF tried.out.k = "raise"
    THEN [code |-> 1, stderr |-> <<"Traceback">>, escaped |-> tried.out.exc]
    ELSE [code |-> 0, stderr |-> <<>>, escaped |-> ""]

\* main() of camera_config.py, followed by sys.exit(main())
Concord_main(top_ip, command, opts, answer, resp, fs) ==
    IF command = ""
    THEN [sent |-> <<>>, call |-> NoCall, code |-> 1, stdout |-> <<"help">>,
          stderr |-> <<>>, escaped |-> "", files |-> fs]
    ELSE
      LET args   == parse_args(top_ip, command, opts)
          camera == ConcordCamera(args["ip"], "admin", "")
          tried  == main_try(args, camera, answer, resp, fs)
          h      == main_except(tried)
      IN  [sent |-> tried.sent, call |-> tried.call, code |-> h.code,
           stdout |-> tried.stdout,
           stderr |-> h.stderr, escaped |-> h.escaped, files |-> tried.files]

(***************************************************************************)
(* The Juan tool: main of tools/juan_camera_tool.py                        *)
(***************************************************************************)
InfoFlags == {"test", "oem", "info", "video_settings", "video_options",
              "audio_settings"}

SetFlags == {"set_codec", "set_profile", "set_resolution", "set_framerate",
             "set_bitrate"}

JuanFlags == InfoFlags \cup SetFlags \cup {"channel", "snapshot"}

\* the default of an option of the Juan tool
JuanDefault(dest) ==
    IF dest \in InfoFlags THEN PyBool(FALSE)
    ELSE IF dest = "channel" THEN PyInt(101)
    ELSE PyNone

\* parser.parse_args() of the Juan tool
juan_parse_args(flags) ==
    [dest \in JuanFlags |-> Arg(flags, dest, JuanDefault(dest))]

\* the settings_to_apply dictionary built from the --set-* options
settings_to_apply(args) ==
    LET d1 == IfTruthy(EmptyMap, "codecType", args["set_codec"])
        d2 == IfTruthy(d1, "h264Profile", args["set_profile"])
        d3 == IfTruthy(d2, "resolution", args["set_resolution"])
        d4 == IfTruthy(d3, "frameRate", args["set_framerate"])
    IN  IfTruthy(d4, "constantBitRate", args["set_bitrate"])

\* the end of a run of the Juan tool
JuanExit(sent, code, stdout, stderr, escaped, fs) ==
    [sent |-> sent, call |-> NoCall, code |-> code, stdout |-> stdout,
     stderr |-> stderr, escaped |-> escaped, files |-> fs]

\* mutant of info_exit: a request that gave nothing is sent a second time
info_exit_retry(e) ==
    IF Truthy(e.out.v)
    THEN JuanExit(e.sent, 0, <<"data">>, e.stderr, "", e.files)
    ELSE JuanExit(e.sent \o e.sent, 1, <<>>, e.stderr, "", e.files)

\* "data = camera.get_...(); if data: print_json(data); sys.exit(0 if data else 1)"
info_exit(e) ==
    IF Truthy(e.out.v)
    THEN JuanExit(e.sent, 0, <<"data">>, e.stderr, "", e.files)
    ELSE JuanExit(e.sent, 1, <<>>, e.stderr, "", e.files)

\* "if args.test: ..."
test_exit(e) ==
    IF Truthy(e.out.v)
    THEN JuanExit(e.sent, 0, <<"Connected">>, e.stderr, "", e.files)
    ELSE JuanExit(e.sent, 1, <<"Failed to connect">>, e.stderr, "", e.files)

\* "if args.snapshot: ..." and the end of main, after the requests in
\* sent with standard output and error so far
snapshot_step(args, camera, sent, stdout, stderr, resp, fs) ==
    IF Truthy(args["snapshot"])
    THEN LET e == Juan_get_snapshot(camera, args["snapshot"].s, resp, fs)
         IN  IF Truthy(e.out.v)
             THEN JuanExit(sent \o e.sent, 0,
                           stdout \o <<"Downloading", "Snapshot saved">>,
                           stderr \o e.stderr, "", e.files)
             ELSE JuanExit(sent \o e.sent, 1,
                           stdout \o <<"Downloading", "Failed to get snapshot">>,
                           stderr \o e.stderr, "", e.files)
    ELSE IF sent = <<>>
    THEN JuanExit(sent, 0, stdout \o <<"help">>, stderr, "", fs)
    ELSE JuanExit(sent, 0, stdout, stderr, "", fs)

\* mutant of settings_step: the snapshot is taken even when the PUT failed
settings_step_ungated(args, camera, rs, fs) ==
    LET settings == settings_to_apply(args)
    IN  IF settings = EmptyMap
        THEN snapshot_step(args, camera, <<>>, <<>>, <<>>, rs[1], fs)
        ELSE
          LET e == set_video_encode(camera, args["channel"].i, settings,
                                    rs[1], fs)
              result == e.out.v
          IN  IF Truthy(result) /\ result.t # "dict"
              \* result.get on a list: AttributeError, which nothing catches
              THEN JuanExit(e.sent, 1, <<"Applying settings">>,
                            e.stderr \o <<"Traceback">>, "AttributeError", fs)
              ELSE IF Truthy(result) /\ DictGet(result, "statusCode") = PyInt(0)
              THEN snapshot_step(args, camera, e.sent,
                                 <<"Applying settings", "Settings applied">>,
                                 e.stderr, rs[2], fs)
              ELSE snapshot_step(args, camera, e.sent,
                                 <<"Applying settings", "Failed to apply settings">>,
                                 e.stderr, rs[2], fs)

\* "if settings_to_apply: ..." followed by the snapshot step
settings_step(args, camera, rs, fs) ==
    LET settings == settings_to_apply(args)
    IN  IF settings = EmptyMap
        THEN snapshot_step(args, camera, <<>>, <<>>, <<>>, rs[1], fs)
        ELSE
          LET e == set_video_encode(camera, args["channel"].i, settings,
                                    rs[1], fs)
              result == e.out.v
          IN  IF Truthy(result) /\ result.t # "dict"
              \* result.get on a list: AttributeError, which nothing catches
              THEN JuanExit(e.sent, 1, <<"Applying settings">>,
                            e.stderr \o <<"Traceback">>, "AttributeError", fs)
              ELSE IF Truthy(result) /\ DictGet(result, "statusCode") = PyInt(0)
              THEN snapshot_step(args, camera, e.sent,
                                 <<"Applying settings", "Settings applied">>,
                                 e.stderr, rs[2], fs)
              ELSE JuanExit(e.sent, 1,
                            <<"Applying settings", "Failed to apply settings">>,
                            e.stderr, "", fs)

\* mutant of Juan_main: --oem is tested before --test
Juan_main_oem_first(ip, flags, rs, fs) ==
    LET args   == juan_parse_args(flags)
        camera == JuanCamera(PyStr(ip), "admin", "")
        ch     == args["channel"].i
    IN  IF Truthy(args["oem"]) THEN info_exit(get_oem_info(camera, rs[1], fs))
        ELSE IF Truthy(args["test"])
        THEN test_exit(test_connection(camera, rs[1], fs))
        ELSE IF Truthy(args["info"])
        THEN info_exit(get_device_info(camera, rs[1], fs))
        ELSE IF Truthy(args["video_settings"])
        THEN info_exit(get_video_encode(camera, ch, rs[1], fs))
        ELSE IF Truthy(args["video_options"])
        THEN info_exit(get_video_encode_properties(camera, ch, rs[1], fs))
        ELSE IF Truthy(args["audio_settings"])
        THEN info_exit(get_audio_encode(camera, ch, rs[1], fs))
        ELSE settings_step(args, camera, rs, fs)

\* main() of juan_camera_tool.py; rs are the camera's answers to the
\* first and the second request of the run
Juan_main(ip, flags, rs, fs) ==
    LET args   == juan_parse_args(flags)
        camera == JuanCamera(PyStr(ip), "admin", "")
        ch     == args["channel"].i
    IN  IF Truthy(args["test"]) THEN test_exit(test_connection(camera, rs[1], fs))
        ELSE IF Truthy(args["oem"])
        THEN info_exit(get_oem_info(camera, rs[1], fs))
        ELSE IF Truthy(args["info"])
        THEN info_exit(get_device_info(camera, rs[1], fs))
        ELSE IF Truthy(args["video_settings"])
        THEN info_exit(get_video_encode(camera, ch, rs[1], fs))
        ELSE IF Truthy(args["video_options"])
        THEN info_exit(get_video_encode_properties(camera, ch, rs[1], fs))
        ELSE IF Truthy(args["audio_settings"])
        THEN info_exit(get_audio_encode(camera, ch, rs[1], fs))
        ELSE settings_step(args, camera, rs, fs)

(***************************************************************************)
(* Inputs                                                                  *)
(***************************************************************************)
\* the address given with -i / --ip
CameraIp == "192.168.1.10"

IntParams == {"dhcp", "channel", "fps", "bitrate", "gop", "brightness",
              "contrast", "saturation", "hue", "sharpness", "flip", "mirror",
              "wdr", "enabled", "sensitivity", "time_enabled",
              "camera_name_enabled", "show_time", "show_name",
              "set_framerate", "set_bitrate"}

\* a non-empty string for a string-valued parameter
TextFor(param) ==
    CASE param = "ip"         -> "192.168.1.100"
      [] param = "codec"      -> "H264"
      [] param = "quality"    -> "high"
      [] param = "output"     -> "cam.jpg"
      [] param = "snapshot"   -> "cam.jpg"
      [] param = "set_codec"  -> "H.264"
      [] param = "set_profile" -> "main"
      [] param = "set_resolution" -> "1920x1080"
      [] OTHER                -> "text"

\* the values a library caller passes for a keyword argument
LibValues(param) ==
    IF param \in IntParams THEN {PyNone, PyInt(0), PyInt(1)}
    ELSE IF param = "regions" THEN {PyNone, PyList(0), PyList(1)}
    ELSE {PyNone, PyStr(""), PyStr(TextFor(param))}

\* the values the command line gives an option: never None, and only the
\* values that the option's type and choices admit
CliValues(dest) ==
    IF dest \in {"channel"} THEN {PyInt(1), PyInt(102)}
    ELSE IF dest \in IntParams THEN {PyInt(0), PyInt(1)}
    ELSE IF dest \in InfoFlags \cup {"no_auth"} THEN {PyBool(TRUE)}
    ELSE IF dest \in {"codec", "quality", "set_codec", "set_profile"}
    THEN {PyStr(TextFor(dest))}
    ELSE IF dest \in {"output", "snapshot"}
    THEN {PyStr(""), PyStr("cam.jpg"), PyStr("old.jpg")}
    ELSE {PyStr(""), PyStr(TextFor(dest))}

\* the ways of giving at most MaxKw of the parameters a value, values[q]
\* being the values tried for the parameter q
Kwargs(params, values) ==
    UNION { {f \in [S -> UNION {values[q] : q \in S}] :
                \A q \in S : f[q] \in values[q]} :
            S \in {T \in SUBSET params : Cardinality(T) <= MaxKw} }

\* the values tried for each keyword argument of a library call
lib_values == [q \in network_params \cup video_params \cup image_params
                    \cup motion_params \cup osd_params
                    \cup {"codecType", "resolution", "frameRate"} |->
                  LibValues(q)]

\* the values tried for each command-line option
cli_values == [q \in JuanFlags \cup UNION {SubOptions(c) : c \in Commands} |->
                  CliValues(q)]

\* the keyword arguments tried on each settings setter
network_kwargs == Kwargs(network_params, lib_values)

video_kwargs == Kwargs(video_params, lib_values)

image_kwargs == Kwargs(image_params, lib_values)

motion_kwargs == Kwargs(motion_params, lib_values)

osd_kwargs == Kwargs(osd_params, lib_values)

encode_kwargs == Kwargs({"codecType", "resolution", "frameRate"}, lib_values)

\* the option sets tried on each subcommand of the Concord CLI
concord_opts == [command \in Commands \cup {""} |-> Kwargs(SubOptions(command), cli_values)]

\* the option sets tried on the Juan tool
juan_flags == Kwargs(JuanFlags, cli_values)

NoAnswer == [eof |-> FALSE, text |-> <<>>]

Typed(text) == [eof |-> FALSE, text |-> text]

\* what the operator may type at a confirmation prompt (or end of input)
Answers ==
    {[eof |-> TRUE, text |-> <<>>],
     Typed(<<>>),
     Typed(<<"y">>),
     Typed(<<"n","o">>),
     Typed(<<"y","e","s">>),
     Typed(<<"Y","E","S">>),
     Typed(<<"Y","e","s">>),
     Typed(<<"y","e","s"," ">>),
     Typed(<<" ","y","e","s">>),
     Typed(<<"y","e","s","s">>),
     Typed(s_FACTORY_RESET),
     Typed(StrLower(s_FACTORY_RESET)),
     Typed(<<"F","a","c","t","o","r","y"," ","R","e","s","e","t">>),
     Typed(s_FACTORY_RESET \o <<" ">>),
     Typed(<<"F","A","C","T","O","R","Y","R","E","S","E","T">>)}

\* the files that exist before the invocation
InitialFiles == ("old.jpg" :> <<1, 2, 3>>)

\* a request to this host can get an answer from a camera; with no host
\* (None or '') the request fails inside the HTTP library
Answerable(host) == Truthy(host)

(***************************************************************************)
(* State                                                                   *)
(***************************************************************************)
VARIABLES
    pc,       \* "start" before the invocation, "done" after it
    op,       \* the invocation: tool, name, arguments, operator's answer
    sent,     \* the HTTP requests sent, in order
    resps,    \* the camera's answers to them, in order
    ret,      \* outcome of the wrapper method (library calls, Concord CLI)
    code,     \* process exit code (CLI runs), -1 for a library call
    stdout,   \* what was printed on standard output
    stderr,   \* what was printed on standard error
    escaped,  \* the exception that left main uncaught, "" if none
    files     \* the filesystem: path -> content

vars == <<pc, op, sent, resps, ret, code, stdout, stderr, escaped, files>>

Init ==
    /\ pc = "start"
    /\ op = [tool |-> "", name |-> "", kw |-> EmptyMap, answer |-> NoAnswer]
    /\ sent = <<>>
    /\ resps = <<>>
    /\ ret = NoCall
    /\ code = -1
    /\ stdout = <<>>
    /\ stderr = <<>>
    /\ escaped = ""
    /\ files = InitialFiles

\* a library user calls a wrapper method, which runs to its end
LibCall(name, kw, e_sent, e_out, e_stderr, e_files, rs) ==
    /\ pc = "start"
    /\ pc' = "done"
    /\ op' = [tool |-> "lib", name |-> name, kw |-> kw, answer |-> NoAnswer]
    /\ sent' = e_sent
    /\ resps' = SubSeq(rs, 1, Len(e_sent))
    /\ ret' = e_out
    /\ code' = -1
    /\ stdout' = <<>>
    /\ stderr' = e_stderr
    /\ escaped' = ""
    /\ files' = e_files

\* a CLI main runs from start to process exit
CliRun(tool, name, kw, answer, e, rs) ==
    /\ pc = "start"
    /\ pc' = "done"
    /\ op' = [tool |-> tool, name |-> name, kw |-> kw, answer |-> answer]
    /\ sent' = e.sent
    /\ resps' = SubSeq(rs, 1, Len(e.sent))
    /\ ret' = e.call
    /\ code' = e.code
    /\ stdout' = e.stdout
    /\ stderr' = e.stderr
    /\ escaped' = e.escaped
    /\ files' = e.files

Camera == ConcordCamera(PyStr(CameraIp), "admin", "")

Juan == JuanCamera(PyStr(CameraIp), "admin", "")

(***************************************************************************)
(* Actions: calls of the ConcordCamera methods                             *)
(***************************************************************************)
ConcordCall(name, kw, e, resp) ==
    LibCall(name, kw, e.sent, e.out, <<>>, files, <<resp>>)

Call_set_network_settings ==
    /\ pc = "start"
    /\ \E kw \in network_kwargs, resp \in SetterResponses :
        ConcordCall("set_network_settings", kw,
                    set_network_settings(Camera, kw, resp), resp)

Call_set_video_stream_settings ==
    /\ pc = "start"
    /\ \E kw \in video_kwargs, resp \in SetterResponses :
        ConcordCall("set_video_stream_settings", kw,
                    set_video_stream_settings(Camera, kw, resp), resp)

Call_set_image_settings ==
    /\ pc = "start"
    /\ \E kw \in image_kwargs, resp \in SetterResponses :
        ConcordCall("set_image_settings", kw,
                    set_image_settings(Camera, kw, resp), resp)

Call_set_motion_detection ==
    /\ pc = "start"
    /\ \E kw \in motion_kwargs, resp \in SetterResponses :
        ConcordCall("set_motion_detection", kw,
                    set_motion_detection(Camera, kw, resp), resp)

Call_set_osd_settings ==
    /\ pc = "start"
    /\ \E kw \in osd_kwargs, resp \in SetterResponses :
        ConcordCall("set_osd_settings", kw,
                    set_osd_settings(Camera, kw, resp), resp)

Call_get_system_info ==
    /\ pc = "start"
    /\ \E resp \in Responses :
        ConcordCall("get_system_info", EmptyMap,
                    get_system_info(Camera, resp), resp)

Call_get_network_settings ==
    /\ pc = "start"
    /\ \E resp \in Responses :
        ConcordCall("get_network_settings", EmptyMap,
                    get_network_settings(Camera, resp), resp)

Call_get_video_stream_settings ==
    /\ pc = "start"
    /\ \E channel \in {PyInt(0), PyInt(1)}, resp \in Responses :
        ConcordCall("get_video_stream_settings", "channel" :> channel,
                    get_video_stream_settings(Camera, channel, resp), resp)

Call_get_image_settings ==
    /\ pc = "start"
    /\ \E resp \in Responses :
        ConcordCall("get_image_settings", EmptyMap,
                    get_image_settings(Camera, resp), resp)

Call_get_motion_detection ==
    /\ pc = "start"
    /\ \E resp \in Responses :
        ConcordCall("get_motion_detection", EmptyMap,
                    get_motion_detection(Camera, resp), resp)

Call_get_osd_settings ==
    /\ pc = "start"
    /\ \E resp \in Responses :
        ConcordCall("get_osd_settings", EmptyMap,
                    get_osd_settings(Camera, resp), resp)

Call_reboot ==
    /\ pc = "start"
    /\ \E resp \in Responses :
        ConcordCall("reboot", EmptyMap, reboot(Camera, resp), resp)

Call_factory_reset ==
    /\ pc = "start"
    /\ \E resp \in Responses :
        ConcordCall("factory_reset", EmptyMap, factory_reset(Camera, resp), resp)

Call_Concord_get_snapshot ==
    /\ pc = "start"
    /\ \E channel \in {PyInt(0), PyInt(1)},
       filename \in {PyNone, PyStr(""), PyStr("cam.jpg"), PyStr("old.jpg")},
       resp \in Responses :
        LET e == Concord_get_snapshot(Camera, channel, filename, resp, files)
        IN  LibCall("Concord.get_snapshot",
                    ("channel" :> channel) @@ ("filename" :> filename),
                    e.sent, e.out, <<>>, e.files, <<resp>>)

(***************************************************************************)
(* Actions: calls of the JuanCamera methods                                *)
(***************************************************************************)
JuanCall(name, kw, e, resp) ==
    LibCall(name, kw, e.sent, e.out, e.stderr, e.files, <<resp>>)

Call_test_connection ==
    /\ pc = "start"
    /\ \E resp \in Responses :
        JuanCall("test_connection", EmptyMap,
                 test_connection(Juan, resp, files), resp)

Call_get_oem_info ==
    /\ pc = "start"
    /\ \E resp \in Responses :
        JuanCall("get_oem_info", EmptyMap, get_oem_info(Juan, resp, files), resp)

Call_get_device_info ==
    /\ pc = "start"
    /\ \E resp \in Responses :
        JuanCall("get_device_info", EmptyMap,
                 get_device_info(Juan, resp, files), resp)

Call_get_video_encode ==
    /\ pc = "start"
    /\ \E channel \in {101, 102}, resp \in Responses :
        JuanCall("get_video_encode", "channel" :> PyInt(channel),
                 get_video_encode(Juan, channel, resp, files), resp)

Call_get_video_encode_properties ==
    /\ pc = "start"
    /\ \E channel \in {101, 102}, resp \in Responses :
        JuanCall("get_video_encode_properties", "channel" :> PyInt(channel),
                 get_video_encode_properties(Juan, channel, resp, files), resp)

Call_get_audio_encode ==
    /\ pc = "start"
    /\ \E channel \in {101, 102}, resp \in Responses :
        JuanCall("get_audio_encode", "channel" :> PyInt(channel),
                 get_audio_encode(Juan, channel, resp, files), resp)

Call_set_video_encode ==
    /\ pc = "start"
    /\ \E kwargs \in encode_kwargs,
       resp \in Responses :
        JuanCall("set_video_encode", kwargs,
                 set_video_encode(Juan, 101, kwargs, resp, files), resp)

Call_set_audio_enabled ==
    /\ pc = "start"
    /\ \E enabled \in BOOLEAN, resp \in Responses :
        JuanCall("set_audio_enabled", "enabled" :> PyBool(enabled),
                 set_audio_enabled(Juan, 101, enabled, resp, files), resp)

Call_Juan_get_snapshot ==
    /\ pc = "start"
    /\ \E output_path \in {"", "cam.jpg", "old.jpg"}, resp \in Responses :
        JuanCall("Juan.get_snapshot", "output_path" :> PyStr(output_path),
                 Juan_get_snapshot(Juan, output_path, resp, files), resp)

(***************************************************************************)
(* Actions: the two command-line tools                                     *)
(***************************************************************************)
\* one run of camera_config.py: -i CameraIp, a subcommand with at most
\* MaxKw of its options, the operator's answer to a prompt, and the
\* camera's answer to the request
Run_Concord_main ==
    /\ pc = "start"
    /\ \E command \in Commands \cup {""} :
         \E opts \in concord_opts[command] :
           \E answer \in (IF command \in {"reboot", "reset"}
                          THEN Answers ELSE {NoAnswer}) :
             \E resp \in (IF \/ command = ""
                             \/ Answerable(parse_args(CameraIp, command, opts)["ip"])
                          THEN Responses ELSE {TransportError}) :
               CliRun("concord", command, opts, answer,
                      Concord_main(CameraIp, command, opts, answer, resp, files),
                      <<resp>>)

\* one run of juan_camera_tool.py: --ip CameraIp and at most MaxKw other
\* options; the second answer matters only if a second request is made
Run_Juan_main ==
    /\ pc = "start"
    /\ \E flags \in juan_flags :
         \E r1 \in Responses :
           \E r2 \in (IF Len(Juan_main(CameraIp, flags, <<r1, r1>>, files).sent) = 2
                      THEN Responses ELSE {r1}) :
             CliRun("juan", "main", flags, NoAnswer,
                    Juan_main(CameraIp, flags, <<r1, r2>>, files), <<r1, r2>>)

Next ==
    \/ Call_set_network_settings
    \/ Call_set_video_stream_settings
    \/ Call_set_image_settings
    \/ Call_set_motion_detection
    \/ Call_set_osd_settings
    \/ Call_get_system_info
    \/ Call_get_network_settings
    \/ Call_get_video_stream_settings
    \/ Call_get_image_settings
    \/ Call_get_motion_detection
    \/ Call_get_osd_settings
    \/ Call_reboot
    \/ Call_factory_reset
    \/ Call_Concord_get_snapshot
    \/ Call_test_connection
    \/ Call_get_oem_info
    \/ Call_get_device_info
    \/ Call_get_video_encode
    \/ Call_get_video_encode_properties
    \/ Call_get_audio_encode
    \/ Call_set_video_encode
    \/ Call_set_audio_enabled
    \/ Call_Juan_get_snapshot
    \/ Run_Concord_main
    \/ Run_Juan_main

Spec == Init /\ [][Next]_vars

(***************************************************************************)
(* The diagnostic script (diagnose.py)                                     *)
(*                                                                         *)
(* A command-line argument is the sequence of its code points.  A run is   *)
(* followed step by step: pc is the step about to run, and each network    *)
(* operation (a socket probe or an HTTP request) is appended to sent, the  *)
(* camera's answer to resps.                                               *)
(***************************************************************************)
\* '.'
dot == 46

\* the characters str.isdigit() accepts that have a decimal value:
\* 0..9 and, of the other scripts, the Arabic-Indic digits
DecimalChars == (48..57) \cup (1632..1641)

\* a character str.isdigit() accepts and int() rejects: SUPERSCRIPT TWO
DigitOnlyChars == {178}

\* camera_ip.split('.')
RECURSIVE split(_, _)
split(str, sep) ==
    IF \A n \in 1..Len(str) : str[n] # sep THEN <<str>>
    ELSE LET n == CHOOSE k \in 1..Len(str) :
                      str[k] = sep /\ \A j \in 1..(k - 1) : str[j] # sep
         IN  <<SubSeq(str, 1, n - 1)>> \o split(SubSeq(str, n + 1, Len(str)), sep)

\* p.isdigit(): not empty, every character a digit
isdigit(p) ==
    /\ p # <<>>
    /\ \A n \in 1..Len(p) : p[n] \in DecimalChars \cup DigitOnlyChars

\* int(p) raises ValueError: a digit without a decimal value
int_raises(p) == \E n \in 1..Len(p) : p[n] \in DigitOnlyChars

\* int(p), for p made of decimal characters: each character counts for
\* its decimal value, whatever its script
RECURSIVE int(_)
int(p) ==
    IF p = <<>> THEN 0
    ELSE 10 * int(SubSeq(p, 1, Len(p) - 1))
         + (IF p[Len(p)] \in 48..57 THEN p[Len(p)] - 48 ELSE p[Len(p)] - 1632)

\* mutant of part_test: any number up to 999 is accepted
part_test_three_digits(p) ==
    IF ~isdigit(p) THEN "invalid"
    ELSE IF int_raises(p) THEN "ValueError"
    ELSE IF 0 <= int(p) /\ int(p) <= 999 THEN "ok"
    ELSE "invalid"

\* "p.isdigit() and 0 <= int(p) <= 255" for one part: true ("ok"), false
\* ("invalid"), or the ValueError of int()
part_test(p) ==
    IF ~isdigit(p) THEN "invalid"
    ELSE IF int_raises(p) THEN "ValueError"
    ELSE IF 0 <= int(p) /\ int(p) <= 255 THEN "ok"
    ELSE "invalid"

\* all(... for p in parts), from part n on: the parts are tested in order
\* and the first one that is not true ends the test
RECURSIVE all_parts(_, _)
all_parts(parts, n) ==
    IF n > Len(parts) THEN "ok"
    ELSE IF part_test(parts[n]) # "ok" THEN part_test(parts[n])
    ELSE all_parts(parts, n + 1)

\* the checks of main before diagnose_camera is called, on sys.argv[1:]
main_validate(argv) ==
    IF Len(argv) + 1 # 2 THEN "usage"
    ELSE LET parts == split(argv[1], dot)
         IN  IF Len(parts) # 4 THEN "invalid" ELSE all_parts(parts, 1)

\* sock.connect_ex((ip, port)), as it leaves the process
Probe(host, port) ==
    Request("connect", host, "none", ":" \o ToString(port), PyNone, PyNone)

\* connect_ex returned result
ProbeResult(result) ==
    [kind |-> "socket", status |-> result, ctype |-> <<>>, body |-> <<>>]

\* the socket calls raised an exception
SocketError ==
    [kind |-> "socket_error", status |-> 0, ctype |-> <<>>, body |-> <<>>]

\* the outcomes of a port probe: connected, refused (errno 111), exception
ProbeResults == {ProbeResult(0), ProbeResult(111), SocketError}

\* the answers tried on the requests of a diagnostic run
DiagResponses ==
    {TransportError,
     HttpResponse(200, ct_json, body_obj),
     HttpResponse(200, ct_jpeg, body_jpeg)}

\* the answers tried on the authentication step
AuthResponses == DiagResponses \cup {HttpResponse(401, ct_html, body_OK)}

\* what a settings step prints for the outcome r of its wrapper call: the
\* fields, when result['data'][...] can be read (a dict with a dict under
\* 'data'), or else the message of its except clause
diag_print(r) ==
    IF /\ r.out.k = "return"
       /\ r.out.v.t = "dict"
       /\ "data" \in DOMAIN r.out.v.m
       /\ r.out.v.m["data"].t = "dict"
       /\ DOMAIN r.out.v.m["data"].m # {}
    THEN <<"fields">>
    ELSE <<"Error">>

\* 1.2.3.4
arg_plain == <<49, 46, 50, 46, 51, 46, 52>>

\* 255.0.0.10
arg_max == <<50, 53, 53, 46, 48, 46, 48, 46, 49, 48>>

\* 01.2.3.4
arg_leading_zero == <<48, 49, 46, 50, 46, 51, 46, 52>>

\* U+0661 (ARABIC-INDIC DIGIT ONE) then .2.3.4
arg_arabic == <<1633, 46, 50, 46, 51, 46, 52>>

\* the empty string
arg_empty == <<>>

\* 1.2.3
arg_three == <<49, 46, 50, 46, 51>>

\* 1.2.3.4.5
arg_five == <<49, 46, 50, 46, 51, 46, 52, 46, 53>>

\* 256.0.0.1
arg_256 == <<50, 53, 54, 46, 48, 46, 48, 46, 49>>

\* 1..3.4
arg_empty_field == <<49, 46, 46, 51, 46, 52>>

\* a.2.3.4
arg_letter == <<97, 46, 50, 46, 51, 46, 52>>

\* 1.2.3.x
arg_last_letter == <<49, 46, 50, 46, 51, 46, 120>>

\* -1.2.3.4
arg_negative == <<45, 49, 46, 50, 46, 51, 46, 52>>

\* 1.2.3.4 followed by a space
arg_space == <<49, 46, 50, 46, 51, 46, 52, 32>>

\* 1.2.3. then U+00B2 (SUPERSCRIPT TWO)
arg_superscript == <<49, 46, 50, 46, 51, 46, 178>>

\* x.2.3. then U+00B2
arg_letter_superscript == <<120, 46, 50, 46, 51, 46, 178>>

\* camera
arg_name == <<99, 97, 109, 101, 114, 97>>

\* the arguments main accepts
ValidArgs == {arg_plain, arg_max, arg_leading_zero, arg_arabic}

\* the argument strings tried
DiagArgs ==
    ValidArgs \cup
    {arg_empty, arg_three, arg_five, arg_256, arg_empty_field, arg_letter,
     arg_last_letter, arg_negative, arg_space, arg_superscript,
     arg_letter_superscript, arg_name}

\* sys.argv[1:]: no argument, one argument, two arguments
DiagArgvs ==
    {<<>>} \cup {<<a>> : a \in DiagArgs}
           \cup {<<arg_plain, a>> : a \in {arg_plain, arg_name}}

\* "camera = ConcordCamera(ip, timeout=10)" for the argument of the run
DiagCamera == ConcordCamera(PyText(op.kw[1]), "admin", "")

\* sys.exit(status) of main, diagnose_camera having returned value (or not
\* having been called)
DiagExit(value, status, out, err, exc) ==
    /\ pc' = "done"
    /\ ret' = value
    /\ code' = status
    /\ stdout' = stdout \o out
    /\ stderr' = stderr \o err
    /\ escaped' = exc

\* diagnose_camera goes on to the step next
DiagGoOn(next, out) ==
    /\ pc' = next
    /\ stdout' = stdout \o out
    /\ UNCHANGED <<ret, code, stderr, escaped>>

\* a step that calls a wrapper method inside "try: ... except Exception:"
\* and goes on whatever the outcome r
DiagStep(here, next, r, resp) ==
    /\ pc = here
    /\ sent' = sent \o r.sent
    /\ resps' = Append(resps, resp)
    /\ DiagGoOn(next, diag_print(r))
    /\ UNCHANGED <<op, files>>

\* main up to the call of diagnose_camera: the argument count, the format
\* check, and the heading printed by diagnose_camera
Diag_main ==
    /\ pc = "start"
    /\ \E argv \in DiagArgvs :
         /\ op' = [tool |-> "diagnose", name |-> "main", kw |-> argv,
                   answer |-> NoAnswer]
         /\ CASE main_validate(argv) = "ok" ->
                    DiagGoOn("port80", <<"Diagnosing">>)
              [] main_validate(argv) = "usage" ->
                    DiagExit(NoCall, 1, <<"Usage">>, <<>>, "")
              [] main_validate(argv) = "invalid" ->
                    DiagExit(NoCall, 1, <<"Error: Invalid IP address format">>,
                             <<>>, "")
              [] main_validate(argv) = "ValueError" ->
                    DiagExit(NoCall, 1, <<>>, <<"Traceback">>, "ValueError")
    /\ UNCHANGED <<sent, resps, files>>

\* step 1: the probe of port 80; anything but a connection ends the run
Diag_port80 ==
    /\ pc = "port80"
    /\ \E result \in ProbeResults :
         /\ sent' = Append(sent, Probe(DiagCamera.host, 80))
         /\ resps' = Append(resps, result)
         /\ IF result = ProbeResult(0)
            THEN DiagGoOn("port554", <<"Port 80 reachable">>)
            ELSE DiagExit(Return(PyBool(FALSE)), 1,
                          <<"Cannot connect to port 80">>, <<>>, "")
    /\ UNCHANGED <<op, files>>

\* mutant of Diag_port554: a failed probe ends the run
Diag_port554_stops ==
    /\ pc = "port554"
    /\ \E result \in ProbeResults :
         /\ sent' = Append(sent, Probe(DiagCamera.host, 554))
         /\ resps' = Append(resps, result)
         /\ IF result = ProbeResult(0)
            THEN DiagGoOn("system_info", <<"Port 554 reachable">>)
            ELSE DiagExit(Return(PyBool(FALSE)), 1,
                          <<"Port 554 not reachable">>, <<>>, "")
    /\ UNCHANGED <<op, files>>

\* step 2: the probe of port 554; the run goes on whatever the outcome
Diag_port554 ==
    /\ pc = "port554"
    /\ \E result \in ProbeResults :
         /\ sent' = Append(sent, Probe(DiagCamera.host, 554))
         /\ resps' = Append(resps, result)
         /\ DiagGoOn("system_info",
                     IF result = ProbeResult(0)
                     THEN <<"Port 554 reachable">>
                     ELSE <<"Port 554 not reachable">>)
    /\ UNCHANGED <<op, files>>

\* steps 3 and 4: get_system_info; an exception ends the run, otherwise
\* the fields of the answer are printed
Diag_system_info ==
    /\ pc = "system_info"
    /\ \E resp \in AuthResponses :
         LET r == get_system_info(DiagCamera, resp)
         IN  /\ sent' = sent \o r.sent
             /\ resps' = Append(resps, resp)
             /\ IF r.out.k = "raise"
                THEN DiagExit(Return(PyBool(FALSE)), 1,
                              <<"Authentication failed">>, <<>>, "")
                ELSE DiagGoOn("network",
                              <<"Authentication successful">> \o diag_print(r))
    /\ UNCHANGED <<op, files>>

\* step 5
Diag_network ==
    \E resp \in DiagResponses :
        DiagStep("network", "video_main",
                 get_network_settings(DiagCamera, resp), resp)

\* step 6, main stream
Diag_video_main ==
    \E resp \in DiagResponses :
        DiagStep("video_main", "video_sub",
                 get_video_stream_settings(DiagCamera, PyInt(0), resp), resp)

\* mutant of Diag_video_sub: the main stream is requested a second time
Diag_video_sub_repeat ==
    \E resp \in DiagResponses :
        DiagStep("video_sub", "image",
                 get_video_stream_settings(DiagCamera, PyInt(0), resp), resp)

\* step 6, sub stream
Diag_video_sub ==
    \E resp \in DiagResponses :
        DiagStep("video_sub", "image",
                 get_video_stream_settings(DiagCamera, PyInt(1), resp), resp)

\* step 7
Diag_image ==
    \E resp \in DiagResponses :
        DiagStep("image", "motion", get_image_settings(DiagCamera, resp), resp)

\* step 8
Diag_motion ==
    \E resp \in DiagResponses :
        DiagStep("motion", "osd", get_motion_detection(DiagCamera, resp), resp)

\* step 9
Diag_osd ==
    \E resp \in DiagResponses :
        DiagStep("osd", "rtsp_urls", get_osd_settings(DiagCamera, resp), resp)

\* step 10: the two RTSP URLs are built and printed, without a request
Diag_rtsp_urls ==
    /\ pc = "rtsp_urls"
    /\ LET url_main == get_rtsp_url(DiagCamera, 1, FALSE)
           url_sub  == get_rtsp_url(DiagCamera, 2, FALSE)
       IN  DiagGoOn("snapshot",
                    <<"rtsp://" \o url_main.auth \o "host/" \o ToString(url_main.channel),
                      "rtsp://" \o url_sub.auth \o "host/" \o ToString(url_sub.channel),
                      "WARNING">>)
    /\ UNCHANGED <<op, sent, resps, files>>

\* step 11, the summary, "return True" and sys.exit(0)
Diag_snapshot ==
    /\ pc = "snapshot"
    /\ \E resp \in DiagResponses :
         LET e == Concord_get_snapshot(DiagCamera, PyInt(0), PyNone, resp, files)
         IN  /\ sent' = sent \o e.sent
             /\ resps' = Append(resps, resp)
             /\ files' = e.files
             /\ DiagExit(Return(PyBool(TRUE)), 0,
                         (IF e.out.k = "raise"
                          THEN <<"Error capturing snapshot">>
                          ELSE IF Truthy(e.out.v)
                          THEN <<"Snapshot captured successfully">>
                          ELSE <<"Snapshot capture failed or empty">>)
                         \o <<"Diagnostics Complete">>,
                         <<>>, "")
    /\ UNCHANGED op

NextDiagnose ==
    \/ Diag_main
    \/ Diag_port80
    \/ Diag_port554
    \/ Diag_system_info
    \/ Diag_network
    \/ Diag_video_main
    \/ Diag_video_sub
    \/ Diag_image
    \/ Diag_motion
    \/ Diag_osd
    \/ Diag_rtsp_urls
    \/ Diag_snapshot

SpecDiagnose == Init /\ [][NextDiagnose]_vars

(***************************************************************************)
(* Vocabulary of the properties                                            *)
(***************************************************************************)
\* the invocation has ended and was made through this tool
Done(tool) == pc = "done" /\ op.tool = tool

\* a request to this path was sent
SentTo(path) == \E n \in 1..Len(sent) : sent[n].path = path

\* the camera answered with a status of the class 2xx
Is2xx(resp) == resp.kind = "http" /\ resp.status \in 200..299

\* the camera answered with a status of the class 4xx or 5xx
Is4xx5xx(resp) == resp.kind = "http" /\ resp.status \in 400..599

\* the bodies that are JSON documents
JsonBodies == {body_obj, body_status0, body_status1, body_list, body_binary}

\* text is the decoding of body: same length, every ASCII byte kept
DecodingOf(text, body) ==
    /\ Len(text) = Len(body)
    /\ \A n \in 1..Len(body) : body[n] < 128 => text[n] = body[n]

\* the settings setters of ConcordCamera
SetterOps == {"set_network_settings", "set_video_stream_settings",
              "set_image_settings", "set_motion_detection",
              "set_osd_settings"}

\* the methods of ConcordCamera that return what _request returns
RequestOps == SetterOps \cup
              {"get_system_info", "get_network_settings",
               "get_video_stream_settings", "get_image_settings",
               "get_motion_detection", "get_osd_settings", "reboot",
               "factory_reset"}

\* the methods of JuanCamera that return what _get returns
JuanGetOps == {"get_oem_info", "get_device_info", "get_video_encode",
               "get_video_encode_properties", "get_audio_encode"}

\* the methods of JuanCamera that return what _put returns
JuanPutOps == {"set_video_encode", "set_audio_enabled"}

\* the caller gave this keyword argument a value other than None
Supplied(key) == key \in DOMAIN op.kw /\ op.kw[key] # PyNone

\* the option of the Juan tool that a key of the PUT body comes from
FlagOf(key) ==
    CASE key = "codecType"       -> "set_codec"
      [] key = "h264Profile"     -> "set_profile"
      [] key = "resolution"      -> "set_resolution"
      [] key = "frameRate"       -> "set_framerate"
      [] key = "constantBitRate" -> "set_bitrate"
      [] OTHER                   -> "none"

\* the spellings of "yes" in any letter case
YesCasings ==
    {<<a, b, c>> : a \in {"y", "Y"}, b \in {"e", "E"}, c \in {"s", "S"}}

(***************************************************************************)
(* C1                                                                      *)
(***************************************************************************)
\* C1 as stated: the reboot POST is sent only if the answer is exactly
\* 'yes', the factory-reset POST only if it is exactly 'FACTORY RESET', and
\* every other answer sends no request.
C1_exact_confirmation ==
    (Done("concord") /\ op.name \in {"reboot", "reset"}) =>
        /\ SentTo("/api/v1/system/reboot") =>
              (~op.answer.eof /\ op.answer.text = s_yes)
        /\ SentTo("/api/v1/system/reset") =>
              (~op.answer.eof /\ op.answer.text = s_FACTORY_RESET)
        /\ sent # <<>> =>
              (SentTo("/api/v1/system/reboot") \/ SentTo("/api/v1/system/reset"))

\* C1 amended: the reboot POST is sent exactly when the answer spells 'yes'
\* in any letter case (nothing before or after it); the factory-reset POST
\* is sent exactly when the answer is 'FACTORY RESET'; every other answer,
\* and end of input, sends no request; no other command sends either POST.
C1_confirmation ==
    Done("concord") =>
        /\ op.name = "reboot" =>
              IF ~op.answer.eof /\ op.answer.text \in YesCasings
              THEN Len(sent) = 1 /\ sent[1].method = "POST"
                   /\ sent[1].path = "/api/v1/system/reboot"
              ELSE sent = <<>>
        /\ op.name = "reset" =>
              IF ~op.answer.eof /\ op.answer.text = s_FACTORY_RESET
              THEN Len(sent) = 1 /\ sent[1].method = "POST"
                   /\ sent[1].path = "/api/v1/system/reset"
              ELSE sent = <<>>
        /\ SentTo("/api/v1/system/reboot") => op.name = "reboot"
        /\ SentTo("/api/v1/system/reset") => op.name = "reset"

\* the operator answered YES to the reboot prompt and the POST was sent
C1_witness ==
    /\ Done("concord") /\ op.name = "reboot"
    /\ op.answer.text = <<"Y", "E", "S">>
    /\ SentTo("/api/v1/system/reboot")

(***************************************************************************)
(* C2                                                                      *)
(***************************************************************************)
\* C2 as stated: the body of a settings request holds a key only if the
\* caller supplied that setting (ConcordCamera setters: a keyword argument
\* other than None; Juan tool: the --set-* option was given).
C2_only_supplied_keys ==
    /\ (Done("lib") /\ op.name \in SetterOps) =>
          \A key \in DOMAIN sent[1].json.m : Supplied(key)
    /\ (Done("juan") /\ sent # <<>> /\ sent[1].method = "PUT") =>
          \A key \in DOMAIN sent[1].json.m : FlagOf(key) \in DOMAIN op.kw

\* C2 amended: as stated, except that the body of set_video_stream_settings
\* always holds 'channel': the value passed, or the default 0 when the
\* caller left it out.
C2_only_supplied_keys_or_channel ==
    /\ (Done("lib") /\ op.name \in SetterOps) =>
          /\ \A key \in DOMAIN sent[1].json.m :
                \/ Supplied(key)
                \/ op.name = "set_video_stream_settings" /\ key = "channel"
          /\ op.name = "set_video_stream_settings" =>
                /\ "channel" \in DOMAIN sent[1].json.m
                /\ "channel" \notin DOMAIN op.kw =>
                       sent[1].json.m["channel"] = PyInt(0)
                /\ "channel" \in DOMAIN op.kw =>
                       sent[1].json.m["channel"] = op.kw["channel"]
    /\ (Done("juan") /\ sent # <<>> /\ sent[1].method = "PUT") =>
          \A key \in DOMAIN sent[1].json.m : FlagOf(key) \in DOMAIN op.kw

\* set_video_stream_settings was called with a codec and no channel, and
\* the body holds the codec and the default channel
C2_witness ==
    /\ Done("lib") /\ op.name = "set_video_stream_settings"
    /\ DOMAIN op.kw = {"codec"} /\ Truthy(op.kw["codec"])
    /\ DOMAIN sent[1].json.m = {"channel", "codec"}

(***************************************************************************)
(* C3                                                                      *)
(***************************************************************************)
\* C3 as stated: every keyword argument of a ConcordCamera setter that
\* was passed a value other than None is in the body, under its own name,
\* with that value.
C3_non_null_arguments_in_body ==
    (Done("lib") /\ op.name \in SetterOps) =>
        \A name \in DOMAIN op.kw :
            op.kw[name] # PyNone =>
                /\ name \in DOMAIN sent[1].json.m
                /\ sent[1].json.m[name] = op.kw[name]

C5_put_raw_text_fallback ==
    (/\ Done("lib") /\ op.name \in JuanPutOps
     /\ Is2xx(resps[1])
     /\ resps[1].body \notin JsonBodies) =>
        /\ stderr = <<>>
        /\ ret.k = "return"
        /\ ret.v # PyNone

(***************************************************************************)
(* C6                                                                      *)
(***************************************************************************)
\* C6 as stated: on every answer with a status outside 2xx, whatever its
\* content type and body, _request raises ValueError, _get and _put return
\* None, and JuanCamera.get_snapshot returns False and writes no file.
C6_non_2xx_fails ==
    (Done("lib") /\ resps # <<>> /\ resps[1].kind = "http"
                 /\ ~Is2xx(resps[1])) =>
        /\ op.name \in RequestOps => ret = Raise("ValueError")
        /\ op.name \in JuanGetOps \cup JuanPutOps => ret = Return(PyNone)
        /\ op.name = "Juan.get_snapshot" =>
              ret = Return(PyBool(FALSE)) /\ files = InitialFiles

\* C6 amended: on every answer with a 4xx or 5xx status, whatever its
\* content type and body, _request raises ValueError, _get and _put return
\* None, and JuanCamera.get_snapshot returns False and writes no file.
C6_4xx_5xx_fails ==
    (Done("lib") /\ resps # <<>> /\ Is4xx5xx(resps[1])) =>
        /\ op.name \in RequestOps => ret = Raise("ValueError")
        /\ op.name \in JuanGetOps \cup JuanPutOps => ret = Return(PyNone)
        /\ op.name = "Juan.get_snapshot" =>
              ret = Return(PyBool(FALSE)) /\ files = InitialFiles

\* get_system_info got 401 with an image content type and a JSON body,
\* and raised
C6_witness ==
    /\ Done("lib") /\ op.name = "get_system_info"
    /\ resps[1] = HttpResponse(401, ct_jpeg, body_status0)
    /\ ret.k = "raise"

(***************************************************************************)
(* C7                                                                      *)
(***************************************************************************)
\* the filesystem is the initial one with exactly body at path
FileHolds(path, body) ==
    files = [q \in DOMAIN InitialFiles \cup {path} |->
                IF q = path THEN body ELSE InitialFiles[q]]

\* C7: on a 2xx answer with an image/... content type, a method returning
\* _request's result returns {'type': 'binary', 'data': <body>},
\* ConcordCamera.get_snapshot returns the body, and in both clients, when
\* a destination path is given, the file at that path holds the body
\* byte for byte.
C7_snapshot_bytes ==
    (Done("lib") /\ resps # <<>> /\ Is2xx(resps[1])
                 /\ StartsWith(resps[1].ctype, s_image_slash)) =>
        /\ op.name \in RequestOps =>
              /\ ret.k = "return"
              /\ ret.v.t = "dict"
              /\ DOMAIN ret.v.m = {"type", "data"}
              /\ ret.v.m["type"] = PyStr("binary")
              /\ ret.v.m["data"] = PyBytes(resps[1].body)
        /\ op.name = "Concord.get_snapshot" =>
              /\ ret = Return(PyBytes(resps[1].body))
              /\ IF Truthy(op.kw["filename"])
                 THEN FileHolds(op.kw["filename"].s, resps[1].body)
                 ELSE files = InitialFiles
        /\ (op.name = "Juan.get_snapshot" /\ op.kw["output_path"].s # "") =>
              /\ ret = Return(PyBool(TRUE))
              /\ FileHolds(op.kw["output_path"].s, resps[1].body)

\* ConcordCamera.get_snapshot wrote a JPEG over an existing file
C7_witness ==
    /\ Done("lib") /\ op.name = "Concord.get_snapshot"
    /\ op.kw["filename"] = PyStr("old.jpg")
    /\ resps[1] = HttpResponse(200, ct_jpeg, body_jpeg)
    /\ files["old.jpg"] = body_jpeg

(***************************************************************************)
(* C8                                                                      *)
(***************************************************************************)
\* an exception other than one raised by the wrapper call arises in the
\* try block of the Concord CLI: end of input at a prompt, or json.dumps
\* of a result that carries bytes
OtherException ==
    \/ op.name \in {"reboot", "reset"} /\ op.answer.eof
    \/ ret.k = "return" /\ op.name # "snapshot" /\ ~Dumpable(ret.v)

C9_juan_exit_code ==
    Done("juan") =>
        /\ (\A n \in 1..Len(resps) : Is2xx(resps[n])) => code = 0
        /\ (\E n \in 1..Len(resps) : ~Is2xx(resps[n])) => code = 1

(***************************************************************************)
(* C10                                                                     *)
(***************************************************************************)
\* the answer is a transport failure or a 401
TransportOrAuthFailure(resp) ==
    resp.kind = "transport" \/ (resp.kind = "http" /\ resp.status = 401)

\* the n-th request asked for a JSON document and got a 2xx answer whose
\* body is not JSON
Malformed(n) ==
    /\ sent[n].path \notin {"/snapshot", "/api/v1/snapshot", "/user/user_list.xml"}
    /\ Is2xx(resps[n])
    /\ resps[n].body \notin JsonBodies

SettingsWrite(req) ==
    /\ req.method \in {"POST", "PUT"}
    /\ req.path \notin {"/api/v1/system/reboot", "/api/v1/system/reset"}

\* the subcommands of the Concord CLI that write settings
SetCommands == {"set-network", "set-video", "set-image", "set-motion",
                "set-osd"}

\* the run sent a settings write and the camera accepted it with a 2xx
WriteAccepted ==
    \E n \in 1..Len(sent) : SettingsWrite(sent[n]) /\ Is2xx(resps[n])

\* C11 as stated: a CLI run that ends with a non-zero exit code had no
\* settings write accepted with a 2xx answer and wrote no snapshot file; a
\* run that ends with 0 performed every action it was asked for (the
\* settings write was accepted, the snapshot file was written).
C11_all_or_nothing ==
    (Done("concord") \/ Done("juan")) =>
        /\ code # 0 => (~WriteAccepted /\ files = InitialFiles)
        /\ (code = 0 /\ op.tool = "concord" /\ op.name \in SetCommands) =>
              WriteAccepted
        /\ (code = 0 /\ op.tool = "juan" /\ DOMAIN op.kw \cap SetFlags # {}) =>
              WriteAccepted
        /\ (code = 0 /\ op.tool = "juan" /\ "snapshot" \in DOMAIN op.kw) =>
              files # InitialFiles

(***************************************************************************)
(* C12                                                                     *)
(***************************************************************************)
\* C12 as stated: every request of the Concord CLI goes to the host given
\* with the top-level -i/--ip, whether set-network is run with its own
\* --ip or without it; the value of set-network's --ip appears only as the
\* 'ip' field of the body.
C12_request_host ==
    (Done("concord") /\ sent # <<>>) =>
        /\ \A n \in 1..Len(sent) : sent[n].host = PyStr(CameraIp)
        /\ (op.name = "set-network" /\ "ip" \in DOMAIN op.kw
            /\ Truthy(op.kw["ip"])) =>
              sent[1].json.m["ip"] = op.kw["ip"]

(***************************************************************************)
(* C13                                                                     *)
(***************************************************************************)
\* the invocation goes through ConcordCamera
ByConcord ==
    \/ op.tool = "concord"
    \/ op.tool = "lib" /\ op.name \in RequestOps \cup {"Concord.get_snapshot"}

\* the invocation goes through JuanCamera
ByJuan == op.tool \in {"juan", "lib"} /\ ~ByConcord

\* the request is the one test_connection makes
IsUserList(req) == req.path = "/user/user_list.xml"

\* C13 as stated: every request of ConcordCamera carries the Digest
\* credentials of the session and every request of JuanCamera,
\* test_connection's included, carries HTTP Basic authentication.
C13_all_authenticated ==
    pc = "done" =>
        \A n \in 1..Len(sent) :
            /\ ByConcord => sent[n].auth = "digest"
            /\ ByJuan => sent[n].auth = "basic"

\* C13 amended: every request of ConcordCamera carries the Digest
\* credentials of the session and every request of JuanCamera carries HTTP
\* Basic authentication, except the request of test_connection, which
\* carries no authentication and passes the configured username and
\* password as query parameters of the URL.
C13_authenticated_except_test ==
    pc = "done" =>
        \A n \in 1..Len(sent) :
            /\ ByConcord => sent[n].auth = "digest"
            /\ (ByJuan /\ ~IsUserList(sent[n])) => sent[n].auth = "basic"
            /\ (ByJuan /\ IsUserList(sent[n])) =>
                  /\ sent[n].auth = "none"
                  /\ sent[n].query =
                        PyDict(("username" :> PyStr(Juan.username)) @@
                               ("password" :> PyStr(Juan.password)))
            /\ IsUserList(sent[n]) =>
                  \/ op.tool = "lib" /\ op.name = "test_connection"
                  \/ op.tool = "juan" /\ "test" \in DOMAIN op.kw

\* the Juan tool was run with --test, and its one request left without
\* authentication, the credentials in its query
C13_witness ==
    /\ Done("juan") /\ "test" \in DOMAIN op.kw
    /\ Len(sent) = 1 /\ IsUserList(sent[1])
    /\ sent[1].auth = "none"
    /\ "password" \in DOMAIN sent[1].query.m

(***************************************************************************)
(* C14                                                                     *)
(***************************************************************************)
\* C14: every call of a wrapper method makes exactly one request (one call
\* of the HTTP library), whatever the answer; a Concord CLI run makes one
\* request for its one wrapper call and none otherwise; a run of the Juan
\* tool makes at most two requests, never the same one twice, and none
\* after a failed one.
C14_no_retry ==
    /\ Done("lib") => Len(sent) = 1 /\ Len(resps) = 1
    /\ Done("concord") =>
          /\ ret.k = "none" => sent = <<>>
          /\ ret.k # "none" => Len(sent) = 1
    /\ Done("juan") =>
          /\ Len(sent) <= 2
          /\ Len(sent) = 2 =>
                /\ sent[1] # sent[2]
                /\ sent[1].method = "PUT" /\ sent[2].method = "GET"
                /\ resps[1].kind = "http" /\ ~Is4xx5xx(resps[1])
                /\ resps[1].body \in JsonBodies

\* the Juan tool was run with --set-codec and --snapshot, the PUT was
\* answered with a 500, and it was the only request of the run
C14_witness ==
    /\ Done("juan") /\ "set_codec" \in DOMAIN op.kw
    /\ "snapshot" \in DOMAIN op.kw
    /\ Len(resps) = 1 /\ resps[1].kind = "http" /\ resps[1].status = 500
    /\ Len(sent) = 1 /\ sent[1].method = "PUT"

(***************************************************************************)
(* C15                                                                     *)
(***************************************************************************)
\* what tells one network operation from another: method, path, query
OpKey(req) == <<req.method, req.path, req.query>>

\* the network operations of a diagnostic run, in the order of the claim
DiagOrder ==
    << <<"connect", ":80", PyNone>>,
       <<"connect", ":554", PyNone>>,
       <<"GET", "/api/v1/system/info", PyNone>>,
       <<"GET", "/api/v1/system/network", PyNone>>,
       <<"GET", "/api/v1/video/stream", PyInt(0)>>,
       <<"GET", "/api/v1/video/stream", PyInt(1)>>,
       <<"GET", "/api/v1/image/settings", PyNone>>,
       <<"GET", "/api/v1/motion/detection", PyNone>>,
       <<"GET", "/api/v1/osd/settings", PyNone>>,
       <<"GET", "/api/v1/snapshot", PyInt(0)>> >>

\* C15: at every moment of a diagnostic run the network operations issued
\* so far are the first ones of the fixed order (port 80, port 554, system
\* info, network settings, video channel 0, video channel 1, image
\* settings, motion detection, OSD settings, snapshot), each issued once,
\* each answered before the next is issued, never more than twelve.
C15_fixed_order ==
    op.tool = "diagnose" =>
        /\ Len(sent) <= Len(DiagOrder)
        /\ Len(sent) <= 12
        /\ \A n \in 1..Len(sent) : OpKey(sent[n]) = DiagOrder[n]
        /\ \A m, n \in 1..Len(sent) : m # n => OpKey(sent[m]) # OpKey(sent[n])
        /\ Len(resps) = Len(sent)

\* a run went through all its steps: the ten operations were issued
C15_witness ==
    /\ Done("diagnose")
    /\ Len(sent) = 10
    /\ OpKey(sent[10]) = <<"GET", "/api/v1/snapshot", PyInt(0)>>

(***************************************************************************)
(* C16                                                                     *)
(***************************************************************************)
\* the probe of port 80 was made and did not connect
Port80Failed == Len(resps) >= 1 /\ resps[1] # ProbeResult(0)

\* the probe of port 554 was made and did not connect
Port554Failed == Len(resps) >= 2 /\ resps[2] # ProbeResult(0)

\* get_system_info was called and raised: transport error or 4xx/5xx
SystemInfoRaised ==
    Len(resps) >= 3 /\ (resps[3].kind = "transport" \/ Is4xx5xx(resps[3]))

\* C16: a run in which diagnose_camera was called ends with False and exit
\* code 1 exactly when the port-80 probe failed or get_system_info raised,
\* and then the failing operation is the last one made; in every other run
\* all ten operations are made and the run ends with True and exit code 0,
\* whatever the later steps met; a failed port-554 probe is always
\* followed by the system-info request.
C16_return_value ==
    (Done("diagnose") /\ ret # NoCall) =>
        /\ ret \in {Return(PyBool(FALSE)), Return(PyBool(TRUE))}
        /\ ret = Return(PyBool(FALSE)) <=> (Port80Failed \/ SystemInfoRaised)
        /\ ret = Return(PyBool(FALSE)) => code = 1
        /\ Port80Failed => Len(sent) = 1
        /\ (~Port80Failed /\ SystemInfoRaised) => Len(sent) = 3
        /\ ret = Return(PyBool(TRUE)) => (code = 0 /\ Len(sent) = 10)
        /\ Port554Failed => Len(sent) >= 3

\* port 554 refused the connection, the network settings request met a
\* transport error and the snapshot failed, and the run ended with True
C16_witness ==
    /\ Done("diagnose")
    /\ Port554Failed
    /\ Len(resps) = 10 /\ resps[4] = TransportError /\ resps[10] = TransportError
    /\ ret = Return(PyBool(TRUE)) /\ code = 0

(***************************************************************************)
(* C17                                                                     *)
(***************************************************************************)
\* the information options in the order main tests them
InfoOrder == <<"test", "oem", "info", "video_settings", "video_options",
               "audio_settings">>

\* the request of each information operation, for the channel ch
InfoPath(flag, ch) ==
    CASE flag = "test"           -> "/user/user_list.xml"
      [] flag = "oem"            -> "/netsdk/oem/deviceinfo"
      [] flag = "info"           -> "/netsdk/system/deviceinfo"
      [] flag = "video_settings" ->
            "/netsdk/video/encode/channel/" \o ToString(ch)
      [] flag = "video_options"  ->
            "/netsdk/video/encode/channel/" \o ToString(ch) \o "/properties"
      [] flag = "audio_settings" ->
            "/netsdk/audio/encode/channel/" \o ToString(ch)

\* the first information option given, in the order of InfoOrder
FirstInfo ==
    InfoOrder[CHOOSE n \in 1..Len(InfoOrder) :
                  /\ InfoOrder[n] \in DOMAIN op.kw
                  /\ \A m \in 1..(n - 1) : InfoOrder[m] \notin DOMAIN op.kw]

\* the channel of the run: --channel, or 101
ChannelGiven ==
    IF "channel" \in DOMAIN op.kw THEN op.kw["channel"].i ELSE 101

\* C17: when a run of the Juan tool is given at least one information
\* option, it makes exactly one request, the GET of the first option given
\* in the order --test, --oem, --info, --video-settings, --video-options,
\* --audio-settings; no PUT is sent, no snapshot is requested, no file is
\* written, and the process exits with 0 or 1, whatever --set-* options or
\* --snapshot come with it.
C17_one_information_operation ==
    (Done("juan") /\ DOMAIN op.kw \cap InfoFlags # {}) =>
        /\ Len(sent) = 1
        /\ sent[1].method = "GET"
        /\ sent[1].path = InfoPath(FirstInfo, ChannelGiven)
        /\ files = InitialFiles
        /\ code \in {0, 1}
        /\ escaped = ""

\* --audio-settings was given together with --set-codec, and the GET of
\* the audio settings was all that was sent
C17_witness ==
    /\ Done("juan")
    /\ "audio_settings" \in DOMAIN op.kw
    /\ "set_codec" \in DOMAIN op.kw
    /\ Len(sent) = 1 /\ sent[1].method = "GET"
    /\ Is2xx(resps[1]) /\ code = 0

(***************************************************************************)
(* C18                                                                     *)
(***************************************************************************)
\* the run was given --snapshot with a path, and no information option
SnapshotRun ==
    /\ Done("juan")
    /\ DOMAIN op.kw \cap InfoFlags = {}
    /\ "snapshot" \in DOMAIN op.kw /\ Truthy(op.kw["snapshot"])

\* the first request was answered with a result whose statusCode is 0
Status0Answer ==
    /\ resps[1].kind = "http" /\ ~Is4xx5xx(resps[1])
    /\ resps[1].body = body_status0

\* a request for the snapshot was made
SnapshotRequested == SentTo("/snapshot")

\* a --set-* option was given a value other than 0 and ''
EffectiveSet == \E f \in DOMAIN op.kw \cap SetFlags : Truthy(op.kw[f])

\* what C18 says of a run
PutGatesSnapshot ==
    /\ sent # <<>> /\ sent[1].method = "PUT"
    /\ \A n \in 1..Len(sent) : sent[n].path = "/snapshot" => n = 2
    /\ SnapshotRequested => Status0Answer
    /\ files # InitialFiles => (SnapshotRequested /\ Status0Answer)
    /\ ~Status0Answer => (code = 1 /\ ~SnapshotRequested)

\* C18 as stated: in a run given --set-* options and --snapshot, and no
\* information option, the PUT is sent first, the snapshot is requested
\* and its file written only if the PUT returned a result whose statusCode
\* is 0, and otherwise the process exits with 1 without a snapshot request.
C18_put_before_snapshot ==
    (SnapshotRun /\ DOMAIN op.kw \cap SetFlags # {}) => PutGatesSnapshot

\* C18 amended: the same, for a run in which at least one --set-* option
\* has a value other than 0 and ''; a --set-* option given 0 or '' is
\* ignored, and a run in which every one given is ignored sends no PUT and
\* requests the snapshot directly.
C18_effective_put_before_snapshot ==
    /\ (SnapshotRun /\ EffectiveSet) => PutGatesSnapshot
    /\ (SnapshotRun /\ ~EffectiveSet) =>
          /\ \A n \in 1..Len(sent) : sent[n].method # "PUT"
          /\ Len(sent) = 1 /\ sent[1].path = "/snapshot"

\* --set-codec and --snapshot cam.jpg: the PUT was answered with
\* statusCode 0, then the snapshot was requested and written
C18_witness ==
    /\ SnapshotRun /\ "set_codec" \in DOMAIN op.kw
    /\ op.kw["snapshot"] = PyStr("cam.jpg")
    /\ Len(sent) = 2 /\ sent[1].method = "PUT" /\ sent[2].path = "/snapshot"
    /\ Status0Answer
    /\ "cam.jpg" \in DOMAIN files /\ files["cam.jpg"] = body_jpeg
    /\ code = 0

(***************************************************************************)
(* C19                                                                     *)
(***************************************************************************)
\* the answer is a 2xx with an image content type
ImageAnswer(resp) == Is2xx(resp) /\ StartsWith(resp.ctype, s_image_slash)

\* C19 as stated: get_snapshot creates or modifies a file only when a
\* destination path was supplied and the answer was a 2xx with an image
\* content type; on every other answer ConcordCamera.get_snapshot raises
\* ValueError, JuanCamera.get_snapshot returns False, and the files are
\* as they were.
C19_snapshot_frame ==
    /\ (Done("lib") /\ op.name = "Concord.get_snapshot") =>
          /\ files # InitialFiles =>
                (Truthy(op.kw["filename"]) /\ ImageAnswer(resps[1]))
          /\ ~ImageAnswer(resps[1]) =>
                (ret = Raise("ValueError") /\ files = InitialFiles)
    /\ (Done("lib") /\ op.name = "Juan.get_snapshot") =>
          /\ files # InitialFiles =>
                (Truthy(op.kw["output_path"]) /\ ImageAnswer(resps[1]))
          /\ ~ImageAnswer(resps[1]) =>
                (ret = Return(PyBool(FALSE)) /\ files = InitialFiles)

(***************************************************************************)
(* C20                                                                     *)
(***************************************************************************)
\* str is four fields separated by dots, each a non-empty string of
\* decimal digits whose value is in 0..255
DottedQuad(str) ==
    /\ Cardinality({n \in 1..Len(str) : str[n] = dot}) = 3
    /\ \A field \in {split(str, dot)[n] : n \in 1..4} :
          /\ field # <<>>
          /\ \A n \in 1..Len(field) : field[n] \in DecimalChars
          /\ int(field) \in 0..255

====
